---------------------------- MODULE Spec2Model ----------------------------
(***************************************************************************)
(* Relay-pool engine of src/App.tsx (NostalgiaApp / App / SettingsApp):    *)
(* the notes query and its cache, the publish mutation, the metadata       *)
(* query, the media upload, the session (login / logout / page load), the  *)
(* relay list and its sync.                                                *)
(*                                                                         *)
(* pool.querySync, pool.publish, finalizeEvent, Promise.any, useQuery and  *)
(* useMutation are library calls; each is modelled at the call site by its *)
(* documented contract (stated in the comment of the definition).          *)
(***************************************************************************)
EXTENDS Integers, Sequences, FiniteSets, TLC

\* ------------------------------------------------------------------ bounds
NumRelays == 2          \* relay URLs the user can configure
MaxPublishes == 1       \* publish mutations started in one run
MaxTicks == 2           \* clock advances in one run
MaxFetches == 3         \* notes queries started in one run
MaxUploads == 1         \* media uploads started in one run
MaxSyncs == 1           \* relay-list syncs started in one run

\* --------------------------------------------------------------- constants
Null == 0               \* null (no key / no pubkey)
StaleTime == 600000     \* staleTime of the metadata query, ms
KindNote == 1           \* kinds: [1]
KindMeta == 0           \* kinds: [0]
Undefined == 0          \* data.url of a response body that holds no url

RelayUrls == 1..NumRelays

VARIABLES
    relays,        \* App state `relays`: sequence of relay urls, no duplicates
    store,         \* the notes each relay holds (remote state)
    userSk,        \* App state `userSk` (Null or a secret key)
    userPk,        \* App state `userPk` (Null or a public key)
    lsSk,          \* localStorage 'nostr_sk'
    lsPk,          \* localStorage 'nostr_pk'
    nostrExt,      \* whether window.nostr exists in this page
    extLogin,      \* loginWithExtension is awaiting window.nostr.getPublicKey()
    notesCache,    \* query cache of ['nostr_notes', relays], per key
    fetch,         \* in-flight queryFn of ['nostr_notes', relays], per key
    fetches,       \* number of notes queries started (bounds the run)
    mut,           \* publishMutation: the current / last mutation
    attachments,   \* NostalgiaApp state `attachments`
    published,     \* number of mutations started (bounds the run)
    now,           \* Date.now(), ms
    ticks,         \* number of clock advances (bounds the run)
    metaCache,     \* query cache of ['nostr_metadata', authors, relays]
    metaFetch,     \* in-flight metadata queries (their keys)
    upload,        \* the call of uploadToBlossom in progress, or the last one
    uploads,       \* number of uploads started (bounds the run)
    recorded,      \* urls that uploads answered with a url have put in `attachments`
    posted,        \* events of the mutations that succeeded
    loginAlert,    \* the last alert() of loginWithSk / loginWithExtension
    nip65          \* calls of syncNip65 awaiting window.nostr.signEvent()

sessionVars == <<userSk, userPk, lsSk, lsPk, nostrExt, extLogin>>
feedVars == <<notesCache, fetch, fetches>>
pubVars == <<mut, attachments, published>>
clockVars == <<now, ticks>>
metaVars == <<metaCache, metaFetch>>
upVars == <<upload, uploads, recorded>>
auxVars == <<upVars, posted, loginAlert, nip65>>

vars == <<relays, store, sessionVars, feedVars, pubVars, clockVars, metaVars, auxVars>>

\* ------------------------------------------------------------------ events
SecretKeys == {11, 12}
AgentKeys == {13}       \* the key held by the window.nostr agent

\* getPublicKey(sk): secret key 11 -> pubkey 1, 12 -> pubkey 2, 13 -> pubkey 3
getPublicKey(sk) == sk - 10

\* getEventHash: the id is a hash of (pubkey, created_at, kind, content); the
\* hash is modelled as the injective tuple of the fields (tags are always []).
\* content is a sequence: the text typed, then the attachment urls.
computeId(pubkey, created_at, kind, content) == <<pubkey, created_at, kind>> \o content

\* a signature made by the holder of pubkey `signer` over `id`
Signature(signer, id) == <<signer, id>>

\* verifyEvent: the id is the hash of the fields and the signature verifies
\* against the event's pubkey and id
verifyEvent(e) ==
    /\ e.id = computeId(e.pubkey, e.created_at, e.kind, e.content)
    /\ e.sig = Signature(e.pubkey, e.id)

\* finalizeEvent(template, sk): fills pubkey, id and sig
finalizeEvent(created_at, kind, content, sk) ==
    LET pk == getPublicKey(sk)
        id == computeId(pk, created_at, kind, content)
    IN  [id |-> id, pubkey |-> pk, created_at |-> created_at, kind |-> kind,
         content |-> content, sig |-> Signature(pk, id)]

\* lexicographic order on ids
IdLess(a, b) ==
    \/ \E i \in 1..Len(a) :
          /\ i <= Len(b)
          /\ a[i] < b[i]
          /\ \A j \in 1..(i - 1) : a[j] = b[j]
    \/ /\ Len(a) < Len(b)
       /\ \A j \in 1..Len(a) : a[j] = b[j]

\* Events a relay may hold: valid notes, two of them with the same created_at,
\* one whose content was changed after signing, one with a signature made by
\* another key.
E100 == finalizeEvent(100, KindNote, <<1>>, 11)
E200 == finalizeEvent(200, KindNote, <<1>>, 11)
E300 == finalizeEvent(300, KindNote, <<1>>, 11)
F300 == finalizeEvent(300, KindNote, <<1>>, 12)
Tampered == [E200 EXCEPT !.content = <<2>>]
Forged == [finalizeEvent(100, KindNote, <<1>>, 12) EXCEPT !.sig = Signature(1, @[2])]

\* Profile events a relay may hold: content 7 and 9 are JSON objects, content
\* 8 is not JSON; key 11 has published two versions of its profile.
Profile1 == finalizeEvent(50, KindMeta, <<7>>, 11)
BadProfile1 == finalizeEvent(60, KindMeta, <<8>>, 11)
Profile2 == finalizeEvent(50, KindMeta, <<9>>, 12)
BadProfile2 == finalizeEvent(50, KindMeta, <<8>>, 12)

StoreChoices ==
    { {}, {E100, E300}, {E200, E300}, {F300, E300}, {Tampered, Forged, E100} }

\* ------------------------------------------------------------- sequences
Range(s) == { s[i] : i \in 1..Len(s) }

NoDupSeqs(S) ==
    { s \in UNION { [1..n -> S] : n \in 0..Cardinality(S) } :
        \A i, j \in 1..Len(s) : i # j => s[i] # s[j] }

RelayKeys == NoDupSeqs(RelayUrls)

Ids(s) == { s[i].id : i \in 1..Len(s) }

Orderings(S) == { s \in NoDupSeqs(S) : Len(s) = Cardinality(S) }

\* --------------------------------------------- metadata query (lines 434-451)
\* Array.from(new Set(notes.map(n => n.pubkey))): the authors in order of
\* first appearance
RECURSIVE AuthorPubkeys(_)
AuthorPubkeys(notes) ==
    IF notes = <<>> THEN <<>>
    ELSE LET rest == AuthorPubkeys(SubSeq(notes, 1, Len(notes) - 1))
             pk == notes[Len(notes)].pubkey
         IN  IF pk \in Range(rest) THEN rest ELSE Append(rest, pk)

\* queryKey: ['nostr_metadata', authorPubkeys, relays] of the render that shows
\* the cached notes of `rel`
MetaKey(cache, rel) == [authors |-> AuthorPubkeys(cache[rel].data), relays |-> rel]

\* staleTime: data updated at `updatedAt` is stale from updatedAt + staleTime on
AlwaysStale(updatedAt, t) == TRUE

IsStale(updatedAt, t) == t >= updatedAt + StaleTime

\* whether the observer of `key` fetches: the query is enabled, holds no data
\* or stale data, and is not being fetched already
MetaWanted(mc, mf, key, t) ==
    /\ key.authors # <<>>
    /\ key \notin mf
    /\ \A c \in mc : c.key = key => IsStale(c.updatedAt, t)

\* the observer after a render: a changed key is fetched if wanted
MetaObserve(mc, mf, prevKey, key, t) ==
    IF key # prevKey /\ MetaWanted(mc, mf, key, t) THEN mf \cup {key} ELSE mf

\* pool.querySync(relays, { kinds: [0], authors }): the verified kind-0 events
\* of the authors that the relays `ok` (those that answered) hold
ProfileEvents(authors, ok) ==
    { e \in UNION { store[r] : r \in ok } :
        e.kind = KindMeta /\ e.pubkey \in authors /\ verifyEvent(e) }

\* JSON.parse(e.content): whether it returns, and what
JsonParses(content) == content \in {<<7>>, <<9>>}

JsonParse(content) == [name |-> content[1]]

\* lines 441-447 without the try/catch: an event that does not parse ends the
\* loop and no entry is returned
ProfileMapUnguarded(events) ==
    IF \E i \in 1..Len(events) : ~JsonParses(events[i].content) THEN <<>>
    ELSE [pk \in { events[i].pubkey : i \in 1..Len(events) } |->
            JsonParse(events[CHOOSE i \in 1..Len(events) :
                               /\ events[i].pubkey = pk
                               /\ \A j \in (i + 1)..Len(events) : events[j].pubkey # pk].content)]

\* lines 441-447: events.forEach with JSON.parse inside try/catch; a later
\* event of the same pubkey overwrites the entry, an event that does not parse
\* changes nothing
RECURSIVE ProfileMap(_)
ProfileMap(events) ==
    IF events = <<>> THEN <<>>
    ELSE LET m == ProfileMap(SubSeq(events, 1, Len(events) - 1))
             e == events[Len(events)]
         IN  IF JsonParses(e.content)
             THEN [pk \in DOMAIN m \cup {e.pubkey} |->
                     IF pk = e.pubkey THEN JsonParse(e.content) ELSE m[pk]]
             ELSE m

\* NostalgiaApp renders again after `relays` or the cached notes changed: the
\* metadata observer gets the key of the new render
Rerender ==
    /\ metaFetch' = MetaObserve(metaCache, metaFetch, MetaKey(notesCache, relays),
                                MetaKey(notesCache', relays'), now)
    /\ UNCHANGED metaCache

\* window focus: a stale enabled query is fetched again
MetaFocus ==
    /\ MetaWanted(metaCache, metaFetch, MetaKey(notesCache, relays), now)
    /\ metaFetch' = metaFetch \cup {MetaKey(notesCache, relays)}
    /\ UNCHANGED <<relays, store, sessionVars, feedVars, pubVars, clockVars, metaCache,
                   auxVars>>

\* queryFn of the metadata query returns: querySync has resolved with the
\* events of the relays that answered, in some order; the map built from them
\* replaces the cache entry of the key. received: the events it was built from
MetaComplete(key) ==
    /\ key \in metaFetch
    /\ \E ok \in SUBSET Range(key.relays) :
         \E order \in Orderings(ProfileEvents(Range(key.authors), ok)) :
            metaCache' = { c \in metaCache : c.key # key } \cup
                           {[key |-> key, updatedAt |-> now,
                             map |-> ProfileMap(order), received |-> Range(order)]}
    /\ metaFetch' = metaFetch \ {key}
    /\ UNCHANGED <<relays, store, sessionVars, feedVars, pubVars, clockVars, auxVars>>

\* ------------------------------------------------- notes query (lines 425-432)
\* events.sort((a, b) => b.created_at - a.created_at): Array.prototype.sort is
\* stable, so events with equal created_at keep their order of arrival.
RECURSIVE InsertSorted(_, _)
InsertSorted(e, s) ==
    IF s = <<>> THEN <<e>>
    ELSE IF e.created_at > s[1].created_at THEN <<e>> \o s
    ELSE <<s[1]>> \o InsertSorted(e, Tail(s))

RECURSIVE SortByCreatedAtDesc(_)
SortByCreatedAtDesc(s) ==
    IF s = <<>> THEN <<>>
    ELSE InsertSorted(s[Len(s)], SortByCreatedAtDesc(SubSeq(s, 1, Len(s) - 1)))

RECURSIVE CollectAll(_, _)
CollectAll(acc, incoming) ==
    IF incoming = <<>> THEN acc
    ELSE CollectAll(IF verifyEvent(incoming[1]) THEN Append(acc, incoming[1]) ELSE acc,
                    Tail(incoming))

\* pool.querySync collects the events of every relay in one array, in order of
\* arrival; an event is kept when it verifies and its id was not seen before.
RECURSIVE Collect(_, _)
Collect(acc, incoming) ==
    IF incoming = <<>> THEN acc
    ELSE LET e == incoming[1]
             keep == verifyEvent(e) /\ e.id \notin Ids(acc)
         IN  Collect(IF keep THEN Append(acc, e) ELSE acc, Tail(incoming))

QueryDoneOnFirstAnswer(f) == f.ok # {} \/ f.pending = {}

\* pool.querySync resolves when every relay has sent its end-of-results marker,
\* failed to connect, or run into its timeout
QueryDone(f) == f.pending = {}

NoData == [has |-> FALSE, data |-> <<>>, from |-> {}]

\* pending: the relays still to answer; acc: the events collected so far;
\* ok: the relays that answered; n: which query of the run this is
IdleFetch == [active |-> FALSE, pending |-> {}, acc |-> <<>>, ok |-> {}, n |-> 0]


\* useQuery starts queryFn for its key unless a fetch of that key is in flight
\* (mount, key change, refetchInterval, window focus)
StartFetch(f, key, n) ==
    IF f[key].active THEN f
    ELSE [f EXCEPT ![key] = [active |-> TRUE, pending |-> Range(key),
                             acc |-> <<>>, ok |-> {}, n |-> n]]

Started(f, key) == IF f[key].active THEN 0 ELSE 1

FetchStart ==
    /\ ~fetch[relays].active
    /\ fetches < MaxFetches
    /\ fetch' = StartFetch(fetch, relays, fetches + 1)
    /\ fetches' = fetches + 1
    /\ UNCHANGED <<relays, store, sessionVars, notesCache, pubVars, clockVars, metaVars,
                   auxVars>>

\* one relay answers the subscription of an in-flight querySync
EndpointRespond(key, r) ==
    /\ fetch[key].active
    /\ r \in fetch[key].pending
    /\ \E order \in Orderings({ e \in store[r] : e.kind = KindNote }) :
         fetch' = [fetch EXCEPT ![key].pending = @ \ {r},
                                ![key].acc = Collect(@, order),
                                ![key].ok = @ \cup {r}]
    /\ UNCHANGED <<relays, store, sessionVars, notesCache, fetches, pubVars, clockVars, metaVars,
                   auxVars>>

\* one relay fails to connect, errors, or exceeds its timeout
EndpointFail(key, r) ==
    /\ fetch[key].active
    /\ r \in fetch[key].pending
    /\ fetch' = [fetch EXCEPT ![key].pending = @ \ {r}]
    /\ UNCHANGED <<relays, store, sessionVars, notesCache, fetches, pubVars, clockVars, metaVars,
                   auxVars>>

\* querySync resolves; queryFn sorts and returns; the cache entry of the key is
\* replaced by the result
FetchComplete(key) ==
    /\ fetch[key].active
    /\ QueryDone(fetch[key])
    /\ notesCache' = [notesCache EXCEPT ![key] =
                        [has |-> TRUE, data |-> SortByCreatedAtDesc(fetch[key].acc),
                         from |-> fetch[key].ok]]
    /\ fetch' = [fetch EXCEPT ![key] = IdleFetch]
    /\ UNCHANGED <<relays, store, sessionVars, fetches, pubVars, clockVars, auxVars>>
    /\ Rerender

\* --------------------------------------------------- session (lines 192-232)
\* loginWithSk(sk): an input that is no secret key makes getPublicKey throw,
\* which the catch turns into an alert. The form is rendered while !userPk.
loginWithSk(sk) ==
    /\ userPk = Null
    /\ IF sk \in SecretKeys
       THEN /\ userSk' = sk
            /\ userPk' = getPublicKey(sk)
            /\ lsSk' = sk
            /\ lsPk' = getPublicKey(sk)
            /\ loginAlert' = "Logged in successfully!"
       ELSE /\ UNCHANGED <<userSk, userPk, lsSk, lsPk>>
            /\ loginAlert' = "Invalid secret key"
    /\ UNCHANGED <<relays, store, nostrExt, extLogin, feedVars, pubVars, clockVars, metaVars,
                   upVars, posted, nip65>>

\* loginWithExtension up to `await window.nostr.getPublicKey()`, or its else
\* branch when window.nostr is absent
loginWithExtension ==
    /\ userPk = Null
    /\ ~extLogin
    /\ IF nostrExt
       THEN /\ extLogin' = TRUE
            /\ UNCHANGED loginAlert
       ELSE /\ UNCHANGED extLogin
            /\ loginAlert' = "Nostr extension not found"
    /\ UNCHANGED <<relays, store, userSk, userPk, lsSk, lsPk, nostrExt, feedVars,
                   pubVars, clockVars, metaVars, upVars, posted, nip65>>

\* lines 214-218 without line 217: the stored secret key is left in place
loginWithExtensionKeepsStoredSk(granted) ==
    /\ extLogin
    /\ extLogin' = FALSE
    /\ IF granted
       THEN \E sk \in AgentKeys :
              /\ userPk' = getPublicKey(sk)
              /\ userSk' = Null
              /\ lsPk' = getPublicKey(sk)
              /\ loginAlert' = "Logged in with extension!"
              /\ UNCHANGED lsSk
       ELSE /\ UNCHANGED <<userSk, userPk, lsSk, lsPk>>
            /\ loginAlert' = "Extension login failed"
    /\ UNCHANGED <<relays, store, nostrExt, feedVars, pubVars, clockVars, metaVars,
                   upVars, posted, nip65>>

\* window.nostr.getPublicKey() settles with the public key of the agent, or
\* rejects: the rest of loginWithExtension
loginWithExtensionReturn(granted) ==
    /\ extLogin
    /\ extLogin' = FALSE
    /\ IF granted
       THEN \E sk \in AgentKeys :
              /\ userPk' = getPublicKey(sk)
              /\ userSk' = Null
              /\ lsPk' = getPublicKey(sk)
              /\ lsSk' = Null
              /\ loginAlert' = "Logged in with extension!"
       ELSE /\ UNCHANGED <<userSk, userPk, lsSk, lsPk>>
            /\ loginAlert' = "Extension login failed"
    /\ UNCHANGED <<relays, store, nostrExt, feedVars, pubVars, clockVars, metaVars,
                   upVars, posted, nip65>>

\* logout; the button is rendered while userPk
logout ==
    /\ userPk # Null
    /\ userSk' = Null /\ userPk' = Null
    /\ lsSk' = Null /\ lsPk' = Null
    /\ UNCHANGED <<relays, store, nostrExt, extLogin, feedVars, pubVars, clockVars, metaVars,
                   auxVars>>

\* the browser extension injects window.nostr into the page
ExtensionInjected ==
    /\ ~nostrExt
    /\ nostrExt' = TRUE
    /\ UNCHANGED <<relays, store, userSk, userPk, lsSk, lsPk, extLogin, feedVars,
                   pubVars, clockVars, metaVars, auxVars>>

\* ------------------------------------------ relay list (lines 733-742, 150-152)
\* a change of `relays` changes the key of the notes query; the observer
\* fetches the new key unless a fetch of it is in flight
addRelay(url) ==
    /\ url \notin Range(relays)
    /\ relays' = Append(relays, url)
    /\ fetches + Started(fetch, relays') <= MaxFetches
    /\ fetch' = StartFetch(fetch, relays', fetches + 1)
    /\ fetches' = fetches + Started(fetch, relays')
    /\ UNCHANGED <<store, sessionVars, notesCache, pubVars, clockVars, auxVars>>
    /\ Rerender

removeRelay(url) ==
    /\ url \in Range(relays)
    /\ LET Keep(r) == r # url IN relays' = SelectSeq(relays, Keep)
    /\ fetches + Started(fetch, relays') <= MaxFetches
    /\ fetch' = StartFetch(fetch, relays', fetches + 1)
    /\ fetches' = fetches + Started(fetch, relays')
    /\ UNCHANGED <<store, sessionVars, notesCache, pubVars, clockVars, auxVars>>
    /\ Rerender

\* ------------------------------------------- publishMutation (lines 499-533)
\* key: the relays of the render that called mutate(); event: the template,
\* then the signed event; writes: the promise of each relay's write; causes:
\* the length of AggregateError.errors; fetchesAt: the notes queries started
\* when onSuccess ran
IdleMutation ==
    [status |-> "idle", key |-> <<>>, event |-> <<>>,
     writes |-> [r \in RelayUrls |-> "none"], error |-> "", causes |-> 0,
     fetchesAt |-> 0]

isPending == mut.status \in {"signing", "publishing"}

\* Promise.any over the promises of pool.publish(relays, event), one per relay:
\* fulfilled by the first write that is acknowledged, rejected (an
\* AggregateError holding one error per promise) once every write has failed;
\* over no promise at all it is rejected at once.
PromiseAll(writes, targets) ==
    IF \E r \in targets : writes[r] = "fail" THEN "rejected"
    ELSE IF \A r \in targets : writes[r] = "ack" THEN "fulfilled"
    ELSE "pending"

PromiseAny(writes, targets) ==
    IF \E r \in targets : writes[r] = "ack" THEN "fulfilled"
    ELSE IF \A r \in targets : writes[r] = "fail" THEN "rejected"
    ELSE "pending"

\* whether the outcome that turns `before` into `after` settles the promise
SettlesAnyAck(before, after, targets) == PromiseAny(after, targets) = "fulfilled"

Settles(before, after, targets) ==
    /\ PromiseAny(before, targets) = "pending"
    /\ PromiseAny(after, targets) # "pending"

\* lines 516-522: the local key, else window.nostr, else nothing
SigningMethodUnchecked(sk, ext) == IF sk # Null THEN "local" ELSE "agent"

SigningMethod(sk, ext) ==
    IF sk # Null THEN "local" ELSE IF ext THEN "agent" ELSE "none"

Causes(writes, targets) == Cardinality({ r \in targets : writes[r] = "fail" })

\* `await Promise.any(pool.publish(relays, event))` with the relays of the
\* render in which mutate() was called
StartPublish(m, key, event) ==
    LET writes == [r \in RelayUrls |-> IF r \in Range(key) THEN "pending" ELSE "none"]
    IN  IF PromiseAny(writes, Range(key)) = "rejected"
        THEN [m EXCEPT !.status = "error", !.key = key, !.event = <<event>>,
                       !.writes = writes, !.error = "All promises were rejected",
                       !.causes = Causes(writes, Range(key))]
        ELSE [m EXCEPT !.status = "publishing", !.key = key, !.event = <<event>>,
                       !.writes = writes]

\* finalContent: the text, then the attachments
FinalContent(text, atts) == <<text>> \o atts

\* onSuccess: the new event is put before the cached list of the key of the
\* current render (useMutation keeps the callbacks of the latest render)
OnSuccessCache(cache, key, event) ==
    [cache EXCEPT ![key] = [has |-> TRUE, data |-> <<event>> \o @.data, from |-> @.from]]

\* the "Post Note" button (disabled: line 601) and mutationFn up to its first
\* await
Mutate(text) ==
    /\ userPk # Null
    /\ ~isPending
    /\ text # 0 \/ attachments # <<>>
    /\ published < MaxPublishes
    /\ published' = published + 1
    /\ LET m0 == [IdleMutation EXCEPT !.key = relays]
           content == FinalContent(text, attachments)
       IN  IF userPk = Null
           THEN mut' = [m0 EXCEPT !.status = "error", !.error = "Not logged in"]
           ELSE IF SigningMethod(userSk, nostrExt) = "local"
           THEN mut' = StartPublish(m0, relays,
                           finalizeEvent(now \div 1000, KindNote, content, userSk))
           ELSE IF SigningMethod(userSk, nostrExt) = "agent"
           THEN mut' = [m0 EXCEPT !.status = "signing",
                                  !.event = <<[created_at |-> now \div 1000,
                                               kind |-> KindNote, content |-> content]>>]
           ELSE mut' = [m0 EXCEPT !.status = "error",
                                  !.error = "No signing method available"]
    /\ UNCHANGED <<relays, store, sessionVars, feedVars, attachments, clockVars, metaVars,
                   auxVars>>

\* window.nostr.signEvent(template) settles. The agent is another process:
\* it answers with an event it signed, with anything else, or it declines.
SignReturn(answer) ==
    /\ mut.status = "signing"
    /\ LET t == mut.event[1]
       IN  \E sk \in AgentKeys :
             LET good == finalizeEvent(t.created_at, t.kind, t.content, sk)
             IN  CASE answer = "signed" -> mut' = StartPublish(mut, mut.key, good)
                   [] answer = "unverifiable" ->
                        mut' = StartPublish(mut, mut.key,
                                   [good EXCEPT !.sig = Signature(Null, good.id)])
                   [] answer = "declined" ->
                        mut' = [mut EXCEPT !.status = "error", !.event = <<>>,
                                           !.error = "User rejected"]
    /\ UNCHANGED <<relays, store, sessionVars, feedVars, attachments, published,
                   clockVars, metaVars, auxVars>>

\* a relay acknowledges its write. If this fulfils Promise.any, mutationFn
\* returns the event and onSuccess runs.
WriteAck(r) ==
    /\ mut.writes[r] = "pending"
    /\ LET writes == [mut.writes EXCEPT ![r] = "ack"]
       IN  IF Settles(mut.writes, writes, Range(mut.key))
           THEN /\ mut' = [mut EXCEPT !.writes = writes, !.status = "success",
                                      !.fetchesAt = fetches]
                /\ notesCache' = OnSuccessCache(notesCache, relays, mut.event[1])
                /\ attachments' = <<>>
                /\ posted' = posted \cup {mut.event[1]}
           ELSE /\ mut' = [mut EXCEPT !.writes = writes]
                /\ UNCHANGED <<notesCache, attachments, posted>>
    /\ UNCHANGED <<relays, store, sessionVars, fetch, fetches, published, clockVars,
                   upVars, loginAlert, nip65>>
    /\ Rerender

\* a relay refuses its write, cannot be reached, or times out. If this rejects
\* Promise.any, mutationFn throws the AggregateError and onError runs.
WriteFail(r) ==
    /\ mut.writes[r] = "pending"
    /\ LET writes == [mut.writes EXCEPT ![r] = "fail"]
       IN  IF Settles(mut.writes, writes, Range(mut.key))
           THEN mut' = [mut EXCEPT !.writes = writes, !.status = "error",
                                   !.error = "All promises were rejected",
                                   !.causes = Causes(writes, Range(mut.key))]
           ELSE mut' = [mut EXCEPT !.writes = writes]
    /\ UNCHANGED <<relays, store, sessionVars, feedVars, attachments, published,
                   clockVars, metaVars, auxVars>>

\* a relay that was handed the write keeps the event, if it verifies, from
\* then on: before or after its acknowledgement reaches the client
RelayStores(r) ==
    /\ mut.writes[r] \in {"pending", "ack"}
    /\ verifyEvent(mut.event[1])
    /\ mut.event[1] \notin store[r]
    /\ store' = [store EXCEPT ![r] = @ \cup {mut.event[1]}]
    /\ UNCHANGED <<relays, sessionVars, feedVars, pubVars, clockVars, metaVars, auxVars>>

\* ------------------------------------------- uploadToBlossom (lines 453-497)
\* sk: `userSk` of the render whose handler was called; response: what the
\* server answered; error: the message of the alert of the catch block
IdleUpload == [status |-> "idle", file |-> 0, sk |-> Null, response |-> "", error |-> ""]

\* isUploading: set before the try block, cleared by the finally block
isUploading == upload.status \in {"hashing", "signing", "putting"}

\* the content-addressed url the server answers for a file
BlobUrl(file) == 20 + file

\* the catch block and the finally block
UploadFailed(u, message) == [u EXCEPT !.status = "error", !.error = message]

\* the file input (button disabled: line 583) and uploadToBlossom up to
\* `await crypto.subtle.digest(...)`
uploadToBlossom(file) ==
    /\ userPk # Null
    /\ ~isUploading
    /\ uploads < MaxUploads
    /\ uploads' = uploads + 1
    /\ upload' = [IdleUpload EXCEPT !.status = "hashing", !.file = file, !.sk = userSk]
    /\ UNCHANGED <<relays, store, sessionVars, feedVars, pubVars, clockVars, metaVars,
                   recorded, posted, loginAlert, nip65>>

\* the digest settles; lines 471-478 pick the signer, window.nostr being read
\* now, and the PUT request is sent with the event a local key signed
UploadHashed(ok) ==
    /\ upload.status = "hashing"
    /\ IF ~ok
       THEN upload' = UploadFailed(upload, "digest failed")
       ELSE IF SigningMethod(upload.sk, nostrExt) = "local"
       THEN upload' = [upload EXCEPT !.status = "putting"]
       ELSE IF SigningMethod(upload.sk, nostrExt) = "agent"
       THEN upload' = [upload EXCEPT !.status = "signing"]
       ELSE upload' = UploadFailed(upload, "Login to upload media")
    /\ UNCHANGED <<relays, store, sessionVars, feedVars, pubVars, clockVars, metaVars,
                   uploads, recorded, posted, loginAlert, nip65>>

\* window.nostr.signEvent(eventTemplate) of line 475 settles; the PUT request
\* is sent with the event it answered
UploadSignReturn(answer) ==
    /\ upload.status = "signing"
    /\ IF answer = "signed"
       THEN upload' = [upload EXCEPT !.status = "putting"]
       ELSE upload' = UploadFailed(upload, "User rejected")
    /\ UNCHANGED <<relays, store, sessionVars, feedVars, pubVars, clockVars, metaVars,
                   uploads, recorded, posted, loginAlert, nip65>>

\* what the server can answer to the PUT request: no answer at all, a status
\* that is not 2xx, and with a 2xx status a body that is not JSON, a JSON
\* object without `url`, or a JSON object with the url of the blob
Responses == {"network error", "not ok", "not json", "no url", "ok"}

\* fetch() settles, and after it response.json(): lines 489-491, with the
\* functional update of `attachments`
UploadResponse(response) ==
    /\ upload.status = "putting"
    /\ LET u == [upload EXCEPT !.response = response]
       IN  CASE response = "network error" ->
                  /\ upload' = UploadFailed(u, "Failed to fetch")
                  /\ UNCHANGED <<attachments, recorded>>
             [] response = "not ok" ->
                  /\ upload' = UploadFailed(u, "Upload failed")
                  /\ UNCHANGED <<attachments, recorded>>
             [] response = "not json" ->
                  /\ upload' = UploadFailed(u, "Unexpected token")
                  /\ UNCHANGED <<attachments, recorded>>
             [] response = "no url" ->
                  /\ upload' = [u EXCEPT !.status = "done"]
                  /\ attachments' = Append(attachments, Undefined)
                  /\ UNCHANGED recorded
             [] response = "ok" ->
                  /\ upload' = [u EXCEPT !.status = "done"]
                  /\ attachments' = Append(attachments, BlobUrl(upload.file))
                  /\ recorded' = recorded \cup {BlobUrl(upload.file)}
    /\ UNCHANGED <<relays, store, sessionVars, feedVars, mut, published, clockVars,
                   metaVars, uploads, posted, loginAlert, nip65>>

\* ------------------------------------------------ syncNip65 (lines 744-767)
\* syncNip65 up to `await window.nostr.signEvent(eventTemplate)`; nothing
\* disables the button while a call is awaiting. Without window.nostr the
\* call only alerts.
syncNip65 ==
    /\ userPk # Null
    /\ nostrExt
    /\ nip65 < MaxSyncs
    /\ nip65' = nip65 + 1
    /\ UNCHANGED <<relays, store, sessionVars, feedVars, pubVars, clockVars, metaVars,
                   upVars, posted, loginAlert>>

\* window.nostr.signEvent(eventTemplate) of line 756 settles: an alert either
\* way, nothing is written to a relay (the publish is commented out)
SyncSignReturn ==
    /\ nip65 > 0
    /\ nip65' = nip65 - 1
    /\ UNCHANGED <<relays, store, sessionVars, feedVars, pubVars, clockVars, metaVars,
                   upVars, posted, loginAlert>>

\* uploads, alerts and relay-list syncs after construction
InitAux ==
    /\ upload = IdleUpload /\ uploads = 0 /\ recorded = {}
    /\ posted = {} /\ loginAlert = "" /\ nip65 = 0

\* ---------------------------------------------------------------- clock
Tick ==
    /\ ticks < MaxTicks
    /\ ticks' = ticks + 1
    /\ now' = now + StaleTime \div 2
    /\ UNCHANGED <<relays, store, sessionVars, feedVars, pubVars, metaVars, auxVars>>

\* ------------------------------------------------------------ initial state
\* useState initialisers of App and NostalgiaApp on a first visit (empty
\* localStorage): lines 142-148, 419-421; relays = DEFAULT_RELAYS
InitCommon ==
    /\ relays = [i \in 1..NumRelays |-> i]
    /\ userSk = Null /\ userPk = Null /\ lsSk = Null /\ lsPk = Null
    /\ extLogin = FALSE
    /\ notesCache = [k \in RelayKeys |-> NoData]
    /\ fetch = StartFetch([k \in RelayKeys |-> IdleFetch], relays, 1)
    /\ fetches = 1
    /\ mut = IdleMutation
    /\ attachments = <<>>
    /\ published = 0
    /\ now = 400000 /\ ticks = 0
    /\ metaCache = {} /\ metaFetch = {}
    /\ InitAux

\* -------------------------------------------- the notes query on its own
InitFeed ==
    /\ InitCommon
    /\ nostrExt = FALSE
    /\ store \in [RelayUrls -> StoreChoices]

NextFeed ==
    \/ FetchStart
    \/ \E k \in RelayKeys, r \in RelayUrls : EndpointRespond(k, r)
    \/ \E k \in RelayKeys, r \in RelayUrls : EndpointFail(k, r)
    \/ \E k \in RelayKeys : FetchComplete(k)

SpecFeed == InitFeed /\ [][NextFeed]_vars

\* ------------------------------------------------------ the whole client
\* page load: the useState initialisers read localStorage (lines 142-148);
\* the query cache, the mutation and the component state start empty; the
\* notes query is mounted and fetches
Reload ==
    /\ userSk' = lsSk
    /\ userPk' = lsPk
    /\ nostrExt' \in BOOLEAN
    /\ extLogin' = FALSE
    /\ notesCache' = [k \in RelayKeys |-> NoData]
    /\ fetches < MaxFetches
    /\ fetch' = StartFetch([k \in RelayKeys |-> IdleFetch], relays, fetches + 1)
    /\ fetches' = fetches + 1
    /\ mut' = IdleMutation
    /\ attachments' = <<>>
    /\ metaCache' = {} /\ metaFetch' = {}
    /\ upload' = IdleUpload /\ nip65' = 0
    /\ UNCHANGED <<relays, store, lsSk, lsPk, published, clockVars,
                   uploads, recorded, posted, loginAlert>>

\* session, relay list and publish; the notes queries that mounting and relay
\* changes start stay in flight
Init ==
    /\ InitCommon
    /\ nostrExt \in BOOLEAN
    /\ store = [r \in RelayUrls |-> {E300}]

Next ==
    \/ \E sk \in SecretKeys \cup {Null} : loginWithSk(sk)
    \/ loginWithExtension
    \/ \E granted \in BOOLEAN : loginWithExtensionReturn(granted)
    \/ logout
    \/ ExtensionInjected
    \/ Reload
    \/ \E url \in RelayUrls : addRelay(url)
    \/ \E url \in RelayUrls : removeRelay(url)
    \/ \E text \in {0, 1} : Mutate(text)
    \/ \E answer \in {"signed", "unverifiable", "declined"} : SignReturn(answer)
    \/ \E r \in RelayUrls : WriteAck(r)
    \/ \E r \in RelayUrls : WriteFail(r)

Spec == Init /\ [][Next]_vars

\* ------------------------------------------------- the publish on its own
\* a page loaded with a stored session, as the useState initialisers of
\* lines 144-148 restore it: a secret key, or the public key of the signing
\* agent with window.nostr injected or not
InitPublish ==
    /\ relays = [i \in 1..NumRelays |-> i]
    /\ \/ \E sk \in {11} : /\ userSk = sk /\ lsSk = sk
                             /\ userPk = getPublicKey(sk) /\ lsPk = getPublicKey(sk)
                             /\ nostrExt = FALSE
       \/ \E sk \in AgentKeys : /\ userSk = Null /\ lsSk = Null
                                  /\ userPk = getPublicKey(sk) /\ lsPk = getPublicKey(sk)
                                  /\ nostrExt \in BOOLEAN
    /\ extLogin = FALSE
    /\ notesCache = [k \in RelayKeys |-> NoData]
    /\ fetch = StartFetch([k \in RelayKeys |-> IdleFetch], relays, 1)
    /\ fetches = 1
    /\ mut = IdleMutation
    /\ attachments = <<>>
    /\ published = 0
    /\ now = 400000 /\ ticks = 0
    /\ metaCache = {} /\ metaFetch = {}
    /\ InitAux
    /\ store = [r \in RelayUrls |-> {E300}]

NextPublish ==
    \/ \E url \in RelayUrls : addRelay(url)
    \/ \E url \in RelayUrls : removeRelay(url)
    \/ \E text \in {0, 1} : Mutate(text)
    \/ \E answer \in {"signed", "unverifiable", "declined"} : SignReturn(answer)
    \/ \E r \in RelayUrls : WriteAck(r)
    \/ \E r \in RelayUrls : WriteFail(r)

SpecPublish == InitPublish /\ [][NextPublish]_vars

\* ------------------------------------- the session, with a publish under way
NextSession ==
    \/ \E sk \in SecretKeys \cup {Null} : loginWithSk(sk)
    \/ loginWithExtension
    \/ \E granted \in BOOLEAN : loginWithExtensionReturn(granted)
    \/ logout
    \/ ExtensionInjected
    \/ Reload
    \/ \E text \in {0, 1} : Mutate(text)
    \/ \E answer \in {"signed", "unverifiable", "declined"} : SignReturn(answer)
    \/ \E r \in RelayUrls : WriteAck(r)
    \/ \E r \in RelayUrls : WriteFail(r)

SpecSession == Init /\ [][NextSession]_vars

\* --------------------------- publish against refreshes that see the new event
NextRefresh ==
    \/ FetchStart
    \/ \E k \in RelayKeys, r \in RelayUrls : EndpointRespond(k, r)
    \/ \E k \in RelayKeys, r \in RelayUrls : EndpointFail(k, r)
    \/ \E k \in RelayKeys : FetchComplete(k)
    \/ \E text \in {0, 1} : Mutate(text)
    \/ \E answer \in {"signed", "unverifiable", "declined"} : SignReturn(answer)
    \/ \E r \in RelayUrls : WriteAck(r)
    \/ \E r \in RelayUrls : WriteFail(r)
    \/ \E r \in RelayUrls : RelayStores(r)

SpecRefresh == InitPublish /\ [][NextRefresh]_vars

\* ------------------------------------------------ the metadata query function
\* relays that hold the notes of two authors and different versions of their
\* profiles; which of them the query function is given depends on the relays
\* that answer and on the order of their answers
InitProfile ==
    /\ InitCommon
    /\ nostrExt = FALSE
    /\ store = [r \in RelayUrls |->
                  IF r = 1 THEN {E100, F300, Profile1, Profile2}
                  ELSE IF r = 2 THEN {E100, F300, BadProfile1, Profile2}
                  ELSE {E100, BadProfile2}]

NextProfile ==
    \/ FetchStart
    \/ \E k \in RelayKeys, r \in RelayUrls : EndpointRespond(k, r)
    \/ \E k \in RelayKeys, r \in RelayUrls : EndpointFail(k, r)
    \/ \E k \in RelayKeys : FetchComplete(k)
    \/ \E key \in metaFetch : MetaComplete(key)

SpecProfile == InitProfile /\ [][NextProfile]_vars

\* ------------------------------------- media upload, publish, relay-list sync
\* the handlers of a logged-in page that sign: the remove button of an
\* attachment (line 570) is left alone
NextMedia ==
    \/ \E file \in {1, 2} : uploadToBlossom(file)
    \/ \E ok \in BOOLEAN : UploadHashed(ok)
    \/ \E answer \in {"signed", "declined"} : UploadSignReturn(answer)
    \/ \E response \in Responses : UploadResponse(response)
    \/ \E text \in {0, 1} : Mutate(text)
    \/ \E answer \in {"signed", "unverifiable", "declined"} : SignReturn(answer)
    \/ \E r \in RelayUrls : WriteAck(r)
    \/ \E r \in RelayUrls : WriteFail(r)
    \/ syncNip65
    \/ SyncSignReturn

SpecMedia == InitPublish /\ [][NextMedia]_vars

\* ------------------------------------- publish against the notes query cache
\* a page loaded with a stored session: a secret key, or the public key of
\* the signing agent
InitCache ==
    /\ relays = [i \in 1..NumRelays |-> i]
    /\ \/ \E sk \in {11} : /\ userSk = sk /\ lsSk = sk
                             /\ userPk = getPublicKey(sk) /\ lsPk = getPublicKey(sk)
                             /\ nostrExt = FALSE
       \/ \E sk \in AgentKeys : /\ userSk = Null /\ lsSk = Null
                                  /\ userPk = getPublicKey(sk) /\ lsPk = getPublicKey(sk)
                                  /\ nostrExt = TRUE
    /\ extLogin = FALSE
    /\ notesCache = [k \in RelayKeys |-> NoData]
    /\ fetch = StartFetch([k \in RelayKeys |-> IdleFetch], relays, 1)
    /\ fetches = 1
    /\ mut = IdleMutation
    /\ attachments = <<>>
    /\ published = 0
    /\ now = 400000 /\ ticks = 0
    /\ metaCache = {} /\ metaFetch = {}
    /\ InitAux
    /\ store = [r \in RelayUrls |-> IF r = 1 THEN {E300, Forged} ELSE {E300}]

NextCache ==
    \/ \E url \in RelayUrls : addRelay(url)
    \/ \E url \in RelayUrls : removeRelay(url)
    \/ FetchStart
    \/ \E k \in RelayKeys, r \in RelayUrls : EndpointRespond(k, r)
    \/ \E k \in RelayKeys, r \in RelayUrls : EndpointFail(k, r)
    \/ \E k \in RelayKeys : FetchComplete(k)
    \/ \E text \in {0, 1} : Mutate(text)
    \/ \E answer \in {"signed", "unverifiable", "declined"} : SignReturn(answer)
    \/ \E r \in RelayUrls : WriteAck(r)
    \/ \E r \in RelayUrls : WriteFail(r)

SpecCache == InitCache /\ [][NextCache]_vars

\* ------------------------------------------------ the metadata cache
InitMeta ==
    /\ InitCommon
    /\ nostrExt = FALSE
    /\ store = [r \in RelayUrls |-> IF r = 1 THEN {E100, Profile1}
                                    ELSE IF r = 2 THEN {F300} ELSE {}]

NextMeta ==
    \/ FetchStart
    \/ \E k \in RelayKeys, r \in RelayUrls : EndpointRespond(k, r)
    \/ \E k \in RelayKeys, r \in RelayUrls : EndpointFail(k, r)
    \/ \E k \in RelayKeys : FetchComplete(k)
    \/ MetaFocus
    \/ \E key \in metaFetch : MetaComplete(key)
    \/ Tick

SpecMeta == InitMeta /\ [][NextMeta]_vars

\* ------------------------------------------------------------ properties
Targets == Range(mut.key)

\* the writes of the current mutation were handed to the pool
WritesStarted == Targets # {} /\ \A r \in Targets : mut.writes[r] # "none"

\* C1: a publish to N >= 1 relays has succeeded exactly when some relay has
\* acknowledged its write, whatever the others did; it has failed exactly when
\* all N writes have failed, and the failure then holds N causes.
PublishSucceedsOnOneAck ==
    WritesStarted =>
        /\ (mut.status = "success") <=> (\E r \in Targets : mut.writes[r] = "ack")
        /\ (mut.status = "error") <=> (\A r \in Targets : mut.writes[r] = "fail")
        /\ mut.status = "error" => mut.causes = Cardinality(Targets)

\* a publish to two relays that succeeded with one write acknowledged and the
\* other failed
OneAckOneFailure ==
    /\ Cardinality(Targets) = 2
    /\ mut.status = "success"
    /\ \E r, q \in Targets : mut.writes[r] = "ack" /\ mut.writes[q] = "fail"

\* C2: the acknowledgement that is the first one resolves the publish while
\* leaving the other writes in flight as they are, and once the publish is
\* settled the outcome of a remaining write changes neither the result nor
\* the state derived from it (the cached notes, the attachments).
ResolvedByFirstAckOnly ==
    [][\A r \in RelayUrls :
          (mut.writes[r] = "pending" /\ mut'.writes[r] \in {"ack", "fail"}) =>
              /\ \A q \in RelayUrls \ {r} : mut'.writes[q] = mut.writes[q]
              /\ (mut.status = "publishing" /\ mut'.writes[r] = "ack")
                    => mut'.status = "success"
              /\ mut.status \in {"success", "error"} =>
                    /\ mut' = [mut EXCEPT !.writes = mut'.writes]
                    /\ UNCHANGED <<notesCache, attachments>>]_vars

\* a publish resolved by one acknowledgement received a second one afterwards
SecondAckAfterSuccess ==
    /\ mut.status = "success"
    /\ Cardinality({ r \in Targets : mut.writes[r] = "ack" }) = 2

\* C8: a publish started with neither a secret key nor window.nostr fails at
\* once with "No signing method available", and none of its writes is started.
NoSignerNoWrite ==
    [][(published' = published + 1 /\ userSk = Null /\ ~nostrExt) =>
          /\ mut'.status = "error"
          /\ mut'.error = "No signing method available"
          /\ mut'.event = <<>>
          /\ \A r \in RelayUrls : mut'.writes[r] = "none"]_vars

\* a logged-in user without a signer whose publish failed
PublishFailedForNoSigner ==
    /\ userPk # Null /\ userSk = Null /\ ~nostrExt
    /\ mut.status = "error"
    /\ mut.error = "No signing method available"

\* C10: with no relay configured, the publish of a signed event resolves
\* successfully.
EmptyRelaySetPublishSucceeds ==
    (mut.key = <<>> /\ mut.event # <<>> /\ mut.status \notin {"idle", "signing"})
        => mut.status = "success"

\* the valid events among those the relays of R hold
ValidEventsOf(R) == { e \in UNION { store[r] : r \in R } : verifyEvent(e) }

FeedOrderedWithIdTieBreak ==
    \A k \in RelayKeys :
        LET d == notesCache[k].data
        IN  \A i, j \in 1..Len(d) :
              i < j => \/ d[i].created_at > d[j].created_at
                       \/ /\ d[i].created_at = d[j].created_at
                          /\ IdLess(d[i].id, d[j].id)

\* the event published by the current mutation
PublishedEvent == mut.event[1]

InCache(cache, k, e) == e \in Range(cache[k].data)

\* C6: the event of a successful publish stays in the cached list it was put
\* in until a refresh started after the publish replaces that list.
PublishedNoteStaysUntilNextRefresh ==
    [][\A k \in RelayKeys :
          (/\ mut.status = "success" /\ mut'.status = "success"
           /\ InCache(notesCache, k, PublishedEvent)
           /\ ~InCache(notesCache', k, PublishedEvent))
              => (fetch[k].active /\ fetch[k].n > mut.fetchesAt)]_vars

\* C9: every event in the cached note lists has an id that is the hash of
\* its fields and a signature that verifies.
CacheHoldsOnlyVerifiedEvents ==
    \A k \in RelayKeys :
        \A i \in 1..Len(notesCache[k].data) : verifyEvent(notesCache[k].data[i])

\* the authors whose entry some profile query produced less than staleTime ago
RecentlyRefreshed ==
    UNION { DOMAIN c.map : c \in { x \in metaCache : now < x.updatedAt + StaleTime } }

FailedUploadRecordsNothing ==
    [][/\ (upload.status = "putting" /\ upload'.status # "putting"
           /\ upload'.response # "ok")
          => (upload'.status = "error" /\ attachments' = attachments)
       /\ (upload.status # "error" /\ upload'.status = "error")
          => attachments' = attachments
       /\ Len(attachments') > Len(attachments)
          => (upload.status = "putting" /\ upload'.response = "ok")]_vars

\* signing calls awaiting their answer: window.nostr.signEvent of the
\* publish, of the upload and of the relay-list syncs
SigningCalls ==
    (IF mut.status = "signing" THEN 1 ELSE 0)
    + (IF upload.status = "signing" THEN 1 ELSE 0)
    + nip65

\* C13: at most one signing call is in flight at any time, whatever the
\* interleaving of note publish, media upload and relay-list sync.
AtMostOneSigningCall == SigningCalls <= 1

\* C17: every url a successful upload recorded is still in `attachments` or is
\* in the content of a note that was published successfully.
UploadedAttachmentKept ==
    \A u \in recorded :
        \/ u \in Range(attachments)
        \/ \E e \in posted : u \in Range(e.content)

\* --------------------------------------------------- profile metadata map
\* C12 as stated: the author of a received profile event that is not JSON has
\* no entry in the resulting map.
MalformedProfileAuthorAbsent ==
    \A c \in metaCache :
        \A e \in c.received : ~JsonParses(e.content) => e.pubkey \notin DOMAIN c.map

\* C12 amended: a refresh that received profile events that are not JSON
\* yields the map built from the other events alone; so an author all of
\* whose received events are not JSON has no entry.
MalformedProfileSkipped ==
    \A c \in metaCache :
        LET good == { e \in c.received : JsonParses(e.content) }
        IN  /\ \E order \in Orderings(good) : c.map = ProfileMap(order)
            /\ \A e \in c.received \ good :
                  (\A g \in good : g.pubkey # e.pubkey) => e.pubkey \notin DOMAIN c.map

\* a refresh received a profile that is not JSON and the profile of another
\* author, whose entry it holds
MalformedAndParsedTogether ==
    \E c \in metaCache :
        \E e \in c.received, g \in c.received :
            /\ ~JsonParses(e.content)
            /\ g.pubkey # e.pubkey
            /\ e.pubkey \notin DOMAIN c.map
            /\ g.pubkey \in DOMAIN c.map /\ c.map[g.pubkey] = JsonParse(g.content)

\* C14: no two profile queries in flight cover the same author pubkey.
MetaQueriesCoalesced ==
    \A k1 \in metaFetch, k2 \in metaFetch :
        k1 # k2 => Range(k1.authors) \cap Range(k2.authors) = {}

\* C16: no cached note list holds two entries with the same event id.
NoDuplicateIdsInCache ==
    \A k \in RelayKeys :
        \A i, j \in 1..Len(notesCache[k].data) :
            i # j => notesCache[k].data[i].id # notesCache[k].data[j].id

\* ------------------------------------------------------------------ session
\* C15: while no session is logged in, no event is signed for the publish and
\* none of its writes is handed to a relay, also when window.nostr.signEvent
\* was awaited at the moment of logout.
NoWriteAfterLogout ==
    [][(userPk = Null /\ userPk' = Null)
          => ~(mut.status = "signing" /\ mut'.status = "publishing")]_vars

\* the alerts of a login attempt that failed
FailedLoginAlerts ==
    {"Invalid secret key", "Extension login failed", "Nostr extension not found"}

SessionPairsAgree ==
    /\ userSk # Null => userPk # Null
    /\ lsSk = userSk /\ lsPk = userPk

\* C18: from a logged-out page, after any interleaving of loginWithSk,
\* loginWithExtension and logout, a secret key is held only with a public
\* key, the stored pair equals the pair in memory, and a login attempt that
\* failed has left both pairs unchanged.
SessionConsistent ==
    /\ SessionPairsAgree
    /\ [][/\ SessionPairsAgree'
          /\ (loginAlert' \in FailedLoginAlerts /\ loginAlert' # loginAlert)
                => UNCHANGED <<userSk, userPk, lsSk, lsPk>>]_vars

\* a login with a secret key went through while window.nostr.getPublicKey()
\* was awaited, and the extension login then failed
ExtensionLoginFailedAfterKeyLogin ==
    /\ loginAlert = "Extension login failed"
    /\ userSk # Null /\ lsSk = userSk /\ lsPk = userPk

=============================================================================
